---- MODULE Spec2Model ----
(***************************************************************************)
(* Ledger-Logic: the journal-entry workflow (submission, approval,         *)
(* rejection), the chart-of-accounts edit, the general ledger and the      *)
(* login / suspension logic of src/authenticate/models.py and views.py.    *)
(*                                                                         *)
(* The database is modelled as its committed contents.  Money is counted   *)
(* in whole units (a DecimalField with two decimals is exact arithmetic).  *)
(* A request handler that only touches the database once is one action;    *)
(* the approve and reject handlers, which load rows and write them back    *)
(* later, are split at their database statements so that two requests can  *)
(* interleave.                                                             *)
(***************************************************************************)
EXTENDS Integers, Sequences, FiniteSets, TLC

(* ------------------------------ bounds -------------------------------- *)
MaxGroups == 1      \* JournalEntryGroup rows that may be created
MaxAmount == 2      \* largest debit / credit value that is submitted
MaxLog == 1         \* edit_account runs while the event log holds fewer records
\* Accounts are deactivated and activated while the event log holds fewer
\* than MaxToggle records.
MaxToggle == 3
MaxDay == 3         \* last calendar day of the run (days are 0..MaxDay)

(* --------------------------- fixed universe --------------------------- *)
Procs == {1, 2}                       \* request-handling threads
Accounts == {"Cash", "Sales"}         \* rows of ChartOfAccounts
AccountNames == Accounts \cup {"Nosuch"}
Users == {"alice"}                    \* rows of CustomUser at the start
Usernames == Users \cup {"ghost"}
Applicants == {"bob"}                 \* usernames that may sign up
Missing == -99                        \* POST field absent or empty
NoDate == -1                          \* a DateField holding None
NoAccount == [none |-> TRUE]          \* no account instance cached
NoPage == [none |-> TRUE]             \* no ledger page has been rendered
SuspendAfter == 5                     \* failed attempts that suspend
AmountInputs == {Missing} \cup (-1 .. MaxAmount)

VARIABLES
    accounts,   \* ChartOfAccounts: name -> row
    nGroups,    \* JournalEntryGroup: ids 1..nGroups exist
    entries,    \* JournalEntry: sequence of rows, pk = index
    ledger,     \* GeneralLedger: sequence of rows
    coa_log,    \* CoAEventLog: sequence of rows
    emails,     \* number of journal-entry notification emails sent
    message,    \* flash message / outcome of the last request
    pc,         \* per thread: position inside journal_entry_page
    ents,       \* per thread: the JournalEntry instances it loaded
    idx,        \* per thread: loop index into ents
    acct,       \* per thread: account instance cached on the current entry
    users,      \* CustomUser: username -> row
    today,      \* timezone.now().date()
    session,    \* usernames with an authenticated session
    page        \* context of the ledger page rendered last

journalVars == <<accounts, nGroups, entries, ledger, coa_log, emails>>
procVars == <<pc, ents, idx, acct>>
userVars == <<users, today, session>>
vars == <<accounts, nGroups, entries, ledger, coa_log, emails, message,
          pc, ents, idx, acct, users, today, session, page>>

(* ------------------------------ helpers ------------------------------- *)
RECURSIVE SumOver(_, _, _)
SumOver(S, f, field) ==
    IF S = {} THEN 0
    ELSE LET x == CHOOSE y \in S : TRUE
         IN  f[x][field] + SumOver(S \ {x}, f, field)

EntryIds == DOMAIN entries
GroupEntries(g) == {e \in EntryIds : entries[e].group = g}
LedgerRowsOf(l, e) == {i \in DOMAIN l : l[i].journal_entry = e}

InitialBalance(a) == IF a = "Cash" THEN 5 ELSE 0
InitialSide(a) == IF a = "Cash" THEN "Left" ELSE "Right"

Init ==
    /\ accounts = [a \in Accounts |->
                     [is_active |-> TRUE,
                      normal_side |-> InitialSide(a),
                      initial_balance |-> InitialBalance(a),
                      debit |-> 0, credit |-> 0,
                      balance |-> InitialBalance(a)]]
    /\ nGroups = 0
    /\ entries = <<>>
    /\ ledger = <<>>
    /\ coa_log = <<>>
    /\ emails = 0
    /\ message = "none"
    /\ pc = [p \in Procs |-> "idle"]
    /\ ents = [p \in Procs |-> <<>>]
    /\ idx = [p \in Procs |-> 0]
    /\ acct = [p \in Procs |-> NoAccount]
    /\ users = [u \in Users |->
                  [is_active |-> TRUE,
                   is_suspended |-> FALSE,
                   failed_login_attempts |-> 0,
                   suspension_start_date |-> NoDate,
                   suspension_end_date |-> NoDate]]
    /\ today = 0
    /\ session = {}
    /\ page = NoPage

(* ----------------------- add_journal_entry ---------------------------- *)
\* The validation chain of add_journal_entry: the flash message of the
\* first failing check, or "ok" when every check passes.
SubmissionCheckNoMatch(account1_name, debit_str, account2_name, credit_str) ==
    IF debit_str = Missing \/ credit_str = Missing
    THEN "Debit and credit values must be entered."
    ELSE IF debit_str <= 0 \/ credit_str <= 0
    THEN "Debit and credit values must be greater than 0."
    ELSE IF account1_name \notin Accounts \/ account2_name \notin Accounts
    THEN "One or more accounts do not exist in the Chart of Accounts."
    ELSE IF accounts[account1_name].normal_side # "Left"
    THEN "Account 1 must be a normal side left account."
    ELSE IF accounts[account2_name].normal_side # "Right"
    THEN "Account 2 must be a normal side right account."
    ELSE "ok"
SubmissionCheck(account1_name, debit_str, account2_name, credit_str) ==
    IF debit_str = Missing \/ credit_str = Missing
    THEN "Debit and credit values must be entered."
    ELSE IF debit_str <= 0 \/ credit_str <= 0
    THEN "Debit and credit values must be greater than 0."
    ELSE IF debit_str # credit_str
    THEN "The total debit and credit values must match."
    ELSE IF account1_name \notin Accounts \/ account2_name \notin Accounts
    THEN "One or more accounts do not exist in the Chart of Accounts."
    ELSE IF accounts[account1_name].normal_side # "Left"
    THEN "Account 1 must be a normal side left account."
    ELSE IF accounts[account2_name].normal_side # "Right"
    THEN "Account 2 must be a normal side right account."
    ELSE "ok"

\* JournalEntry.STATUS_CHOICES
STATUS_CHOICES == {"Pending", "Approved", "Denied"}

NewEntry(account, debit, credit, group) ==
    [account |-> account, debit |-> debit, credit |-> credit,
     status |-> "Pending", group |-> group]

\* The three creations of lines 705-725 run in autocommit mode: a date that
\* DateField cannot parse makes JournalEntry.objects.create raise, and what
\* was created before stays stored.
CreateEntries(es, group, account1, debit, date1, account2, credit, date2) ==
    IF ~date1 THEN es
    ELSE IF ~date2 THEN Append(es, NewEntry(account1, debit, 0, group))
    ELSE Append(Append(es, NewEntry(account1, debit, 0, group)),
                NewEntry(account2, 0, credit, group))

add_journal_entry(p, account1_name, debit_str, account2_name, credit_str, date1, date2) ==
    /\ pc[p] = "idle"
    /\ nGroups < MaxGroups
    /\ LET check == SubmissionCheck(account1_name, debit_str,
                                    account2_name, credit_str)
       IN  IF check # "ok"
           THEN /\ message' = check
                /\ UNCHANGED <<nGroups, entries, emails>>
           ELSE /\ nGroups' = nGroups + 1
                /\ entries' = CreateEntries(entries, nGroups + 1,
                                            account1_name, debit_str, date1,
                                            account2_name, credit_str, date2)
                /\ emails' = IF date1 /\ date2 THEN emails + 1 ELSE emails
                /\ message' = IF date1 /\ date2 THEN "redirect"
                              ELSE "server error"
    /\ UNCHANGED <<accounts, ledger, coa_log, procVars, userVars, page>>

(* ------------------- journal_entry_page: approve ---------------------- *)
\* JournalEntry.objects.filter(group_id=group_id), evaluated by the for
\* loop: in-memory copies of the group's rows as stored at that moment.
LoadEntries(group_id) ==
    LET all == [i \in 1..Len(entries) |->
                  [id |-> i,
                   account |-> entries[i].account,
                   debit |-> entries[i].debit,
                   credit |-> entries[i].credit,
                   status |-> entries[i].status,
                   group |-> entries[i].group]]
    IN  SelectSeq(all, LAMBDA r : r.group = group_id)

CurrentEntry(p) == ents[p][idx[p]]

\* A row written inside a transaction that has not committed yet is locked:
\* another writer of the same row waits for the commit or the rollback.
InTransaction(q) == pc[q] \in {"approve_account", "approve_commit"}
LockedByOther(e, p) ==
    \E q \in Procs \ {p} : InTransaction(q) /\ CurrentEntry(q).id = e

\* The request is over: the thread drops its instances.
Finish(p, msg) ==
    /\ pc' = [pc EXCEPT ![p] = "idle"]
    /\ ents' = [ents EXCEPT ![p] = <<>>]
    /\ idx' = [idx EXCEPT ![p] = 0]
    /\ acct' = [acct EXCEPT ![p] = NoAccount]
    /\ message' = msg

approve_start(p, group_id) ==
    /\ pc[p] = "idle"
    /\ LET loaded == LoadEntries(group_id)
       IN  IF loaded = <<>>
           THEN Finish(p, "redirect")
           ELSE /\ pc' = [pc EXCEPT ![p] = "approve_entry"]
                /\ ents' = [ents EXCEPT ![p] = loaded]
                /\ idx' = [idx EXCEPT ![p] = 1]
                /\ UNCHANGED <<acct, message>>
    /\ UNCHANGED <<journalVars, userVars, page>>

\* if self.status == "Pending": tested on the in-memory instance.
ApproveGuardAlways(status) == TRUE
ApproveGuard(status) == status = "Pending"

\* JournalEntry.approve up to self.save(): the row is written (and locked)
\* inside the transaction; fail = the save raises.
approve_begin(p, fail) ==
    /\ pc[p] = "approve_entry"
    /\ IF ApproveGuard(CurrentEntry(p).status)
       THEN /\ ~LockedByOther(CurrentEntry(p).id, p)
            /\ IF fail
               THEN Finish(p, "server error")
               ELSE /\ pc' = [pc EXCEPT ![p] = "approve_account"]
                    /\ ents' = [ents EXCEPT ![p][idx[p]].status = "Approved"]
                    /\ UNCHANGED <<idx, acct, message>>
       ELSE /\ ~fail
            /\ pc' = [pc EXCEPT ![p] = "view_save"]
            /\ UNCHANGED <<ents, idx, acct, message>>
    /\ UNCHANGED <<journalVars, userVars, page>>

\* account = self.account; account.debit += ...; account.credit += ...;
\* account.balance = initial_balance + debit - credit  (in memory)
UpdatedAccountStaleBalance(account, entry) ==
    [account EXCEPT !.debit = account.debit + entry.debit,
                    !.credit = account.credit + entry.credit,
                    !.balance = account.initial_balance
                                + account.debit - account.credit]
UpdatedAccount(account, entry) ==
    LET d == account.debit + entry.debit
        c == account.credit + entry.credit
    IN  [account EXCEPT !.debit = d, !.credit = c,
                        !.balance = account.initial_balance + d - c]

approve_load_account(p) ==
    /\ pc[p] = "approve_account"
    /\ acct' = [acct EXCEPT ![p] =
                  UpdatedAccount(accounts[CurrentEntry(p).account],
                                 CurrentEntry(p))]
    /\ pc' = [pc EXCEPT ![p] = "approve_commit"]
    /\ UNCHANGED <<journalVars, userVars, page, ents, idx, message>>

GeneralLedgerRow(entry, account) ==
    [account |-> entry.account, journal_entry |-> entry.id,
     debit |-> entry.debit, credit |-> entry.credit,
     balance |-> account.balance]

\* with transaction.atomic(): the stored result of the block whose
\* statements produce s1 (entry saved), s2 (account saved), s3 (ledger row
\* created); failAt = 0 when nothing raises, else the statement that raises.
NoTransaction(before, s1, s2, s3, failAt) ==
    IF failAt = 0 THEN s3 ELSE IF failAt = 2 THEN s1 ELSE s2
TransactionAtomic(before, s1, s2, s3, failAt) ==
    IF failAt = 0 THEN s3 ELSE before

\* account.save(); GeneralLedger.objects.create(...); leave the atomic block
approve_commit(p, failAt) ==
    /\ pc[p] = "approve_commit"
    /\ LET e == CurrentEntry(p)
           before == [entries |-> entries, accounts |-> accounts,
                      ledger |-> ledger]
           s1 == [before EXCEPT !.entries[e.id].status = "Approved"]
           s2 == [s1 EXCEPT !.accounts[e.account] = acct[p]]
           s3 == [s2 EXCEPT !.ledger =
                                 Append(@, GeneralLedgerRow(e, acct[p]))]
           after == TransactionAtomic(before, s1, s2, s3, failAt)
       IN  /\ entries' = after.entries
           /\ accounts' = after.accounts
           /\ ledger' = after.ledger
    /\ IF failAt = 0
       THEN /\ pc' = [pc EXCEPT ![p] = "view_save"]
            /\ UNCHANGED <<ents, idx, acct, message>>
       ELSE Finish(p, "server error")
    /\ UNCHANGED <<nGroups, coa_log, emails, userVars, page>>

\* Back in the view: account = entry.account; account.save().  The instance
\* is the one approve() cached, or a fresh read if approve() did nothing.
view_save(p) ==
    /\ pc[p] = "view_save"
    /\ LET a == CurrentEntry(p).account
           instance == IF acct[p] # NoAccount THEN acct[p] ELSE accounts[a]
       IN  accounts' = [accounts EXCEPT ![a] = instance]
    /\ IF idx[p] < Len(ents[p])
       THEN /\ pc' = [pc EXCEPT ![p] = "approve_entry"]
            /\ idx' = [idx EXCEPT ![p] = @ + 1]
            /\ acct' = [acct EXCEPT ![p] = NoAccount]
            /\ UNCHANGED <<ents, message>>
       ELSE Finish(p, "redirect")
    /\ UNCHANGED <<nGroups, entries, ledger, coa_log, emails, userVars, page>>

(* -------------------- journal_entry_page: reject ---------------------- *)
reject_start(p, group_id) ==
    /\ pc[p] = "idle"
    /\ LET loaded == LoadEntries(group_id)
       IN  IF loaded = <<>>
           THEN Finish(p, "redirect")
           ELSE /\ pc' = [pc EXCEPT ![p] = "reject_entry"]
                /\ ents' = [ents EXCEPT ![p] = loaded]
                /\ idx' = [idx EXCEPT ![p] = 1]
                /\ UNCHANGED <<acct, message>>
    /\ UNCHANGED <<journalVars, userVars, page>>

\* entry.status = "Rejected"; entry.save()
RejectedRow(row) == [row EXCEPT !.status = "Rejected"]

\* The reject branch holds no statement on GeneralLedger: the table is
\* as it was.
LedgerAfterRejectUndo(l, e) == SelectSeq(l, LAMBDA r : r.journal_entry # e)
LedgerAfterReject(l, e) == l

reject_entry(p) ==
    /\ pc[p] = "reject_entry"
    /\ ~LockedByOther(CurrentEntry(p).id, p)
    /\ entries' = [entries EXCEPT ![CurrentEntry(p).id] = RejectedRow(@)]
    /\ ledger' = LedgerAfterReject(ledger, CurrentEntry(p).id)
    /\ IF idx[p] < Len(ents[p])
       THEN /\ idx' = [idx EXCEPT ![p] = @ + 1]
            /\ UNCHANGED <<pc, ents, acct, message>>
       ELSE Finish(p, "redirect")
    /\ UNCHANGED <<accounts, nGroups, coa_log, emails, userVars, page>>

(* --------------------------- edit_account ----------------------------- *)
\* ChartOfAccountForm(request.POST, instance=account): the posted normal
\* side is valid when it is one of the LeftRight choices, and validating
\* the form already writes the cleaned value into the instance.
LeftRight == {"Left", "Right"}
ChartOfAccountForm(instance, normal_side) ==
    [instance EXCEPT !.normal_side = normal_side]

serialize_account(account_id, instance) ==
    [account_name |-> account_id,
     is_active |-> instance.is_active,
     normal_side |-> instance.normal_side,
     initial_balance |-> instance.initial_balance,
     debit |-> instance.debit,
     credit |-> instance.credit,
     balance |-> instance.balance]

edit_account(p, account_id, normal_side) ==
    /\ pc[p] = "idle"
    /\ Len(coa_log) < MaxLog
    /\ IF account_id \notin Accounts
       THEN /\ message' = "not found"
            /\ UNCHANGED <<accounts, coa_log>>
       ELSE IF normal_side \notin LeftRight
       THEN /\ message' = "form invalid"
            /\ UNCHANGED <<accounts, coa_log>>
       ELSE LET instance == ChartOfAccountForm(accounts[account_id],
                                               normal_side)
                before_edit_snapshot == serialize_account(account_id, instance)
                after_edit_snapshot == serialize_account(account_id, instance)
            IN  /\ accounts' = [accounts EXCEPT ![account_id] = instance]
                /\ coa_log' = Append(coa_log,
                      [action |-> "modified",
                       before_change |-> before_edit_snapshot,
                       after_change |-> after_edit_snapshot,
                       chart_of_account |-> account_id])
                /\ message' = "Account updated successfully!"
    /\ UNCHANGED <<nGroups, entries, ledger, emails, procVars, userVars, page>>

(* ------------- deactivate_account and activate_account ---------------- *)
\* CoAEventLog.ACTION_CHOICES
ACTION_CHOICES == {"added", "modified", "deactivated"}

\* serialize("json", [account]): the framework's serializer, one object
\* with the model name, the primary key and the field values.
serialize(account_id, instance) ==
    [model |-> "authenticate.chartofaccounts", pk |-> account_id,
     fields |-> instance]

\* if balance is not None and balance > 0: the account keeps its state.
DeactivationRefusedNever(balance) == FALSE
DeactivationRefused(balance) == balance > 0

\* The body of the view, reached by a superuser.
deactivate_account(p, account_id) ==
    /\ pc[p] = "idle"
    /\ Len(coa_log) < MaxToggle
    /\ IF account_id \notin Accounts
       THEN /\ message' = "not found"
            /\ UNCHANGED <<accounts, coa_log>>
       ELSE IF DeactivationRefused(accounts[account_id].balance)
       THEN /\ message' = "Accounts with a balance greater than 0 cannot be deactivated."
            /\ UNCHANGED <<accounts, coa_log>>
       ELSE LET account == accounts[account_id]
                before_change == serialize(account_id, account)
                saved == [account EXCEPT !.is_active = FALSE]
                after_change == serialize(account_id, saved)
            IN  /\ accounts' = [accounts EXCEPT ![account_id] = saved]
                /\ coa_log' = Append(coa_log,
                      [action |-> "deactivated",
                       before_change |-> before_change,
                       after_change |-> after_change,
                       chart_of_account |-> account_id])
                /\ message' = "redirect"
    /\ UNCHANGED <<nGroups, entries, ledger, emails, procVars, userVars, page>>

activate_account(p, account_id) ==
    /\ pc[p] = "idle"
    /\ Len(coa_log) < MaxToggle
    /\ IF account_id \notin Accounts
       THEN /\ message' = "not found"
            /\ UNCHANGED <<accounts, coa_log>>
       ELSE LET account == accounts[account_id]
                before_change == serialize(account_id, account)
                saved == [account EXCEPT !.is_active = TRUE]
                after_change == serialize(account_id, saved)
            IN  /\ accounts' = [accounts EXCEPT ![account_id] = saved]
                /\ coa_log' = Append(coa_log,
                      [action |-> "activated",
                       before_change |-> before_change,
                       after_change |-> after_change,
                       chart_of_account |-> account_id])
                /\ message' = "redirect"
    /\ UNCHANGED <<nGroups, entries, ledger, emails, procVars, userVars, page>>

(* ------------------------------ ledger -------------------------------- *)
\* JournalEntry.objects.filter(account=account).order_by("date"); entries
\* are submitted in date order, so date order is primary-key order.
AccountEntries(account_id) ==
    SelectSeq([i \in 1..Len(entries) |->
                 [id |-> i,
                  account |-> entries[i].account,
                  debit |-> entries[i].debit,
                  credit |-> entries[i].credit,
                  status |-> entries[i].status]],
              LAMBDA r : r.account = account_id)

\* The loop of lines 780-783: entry.balance is the balance carried so far
\* plus the entry's debit minus its credit.
RECURSIVE RunningBalance(_, _)
RunningBalance(journal_entries, current_balance) ==
    IF journal_entries = <<>> THEN <<>>
    ELSE LET entry == Head(journal_entries)
             balance == current_balance + entry.debit - entry.credit
         IN  <<[id |-> entry.id, debit |-> entry.debit,
                credit |-> entry.credit, status |-> entry.status,
                balance |-> balance]>>
             \o RunningBalance(Tail(journal_entries), balance)

\* The view ledger(request, account_id); the name ledger is the table's.
ledger_view(p, account_id) ==
    /\ pc[p] = "idle"
    /\ IF account_id \notin Accounts
       THEN /\ message' = "not found"
            /\ page' = NoPage
       ELSE /\ message' = "ledger.html"
            /\ page' = [account |-> account_id,
                        journal_entries |->
                          RunningBalance(AccountEntries(account_id),
                            accounts[account_id].initial_balance)]
    /\ UNCHANGED <<journalVars, procVars, userVars>>

(* ---------------------------- CustomUser ------------------------------ *)
\* CustomUser.save: the row that is stored for the in-memory instance.
CustomUser_saveKeepDates(user, now) ==
    IF ~user.is_suspended
    THEN user
    ELSE IF user.suspension_start_date # NoDate
            /\ user.suspension_end_date # NoDate
    THEN [user EXCEPT !.is_suspended =
              (user.suspension_start_date <= now
               /\ now <= user.suspension_end_date)]
    ELSE [user EXCEPT !.is_suspended = FALSE]
CustomUser_save(user, now) ==
    IF ~user.is_suspended
    THEN [user EXCEPT !.suspension_start_date = NoDate,
                      !.suspension_end_date = NoDate]
    ELSE IF user.suspension_start_date # NoDate
            /\ user.suspension_end_date # NoDate
    THEN [user EXCEPT !.is_suspended =
              (user.suspension_start_date <= now
               /\ now <= user.suspension_end_date)]
    ELSE [user EXCEPT !.is_suspended = FALSE]

\* Lines 77-88 of login_user: the suspension window is re-read at login.
LoginWindowCheckNoSuspend(user, now) ==
    IF user.suspension_start_date # NoDate /\ user.suspension_end_date # NoDate
    THEN CustomUser_save(
           IF now > user.suspension_end_date
           THEN [user EXCEPT !.is_suspended = FALSE,
                             !.suspension_start_date = NoDate,
                             !.suspension_end_date = NoDate]
           ELSE user,
           now)
    ELSE user
LoginWindowCheckSkip(user, now) == user
LoginWindowCheck(user, now) ==
    IF user.suspension_start_date # NoDate /\ user.suspension_end_date # NoDate
    THEN CustomUser_save(
           IF user.suspension_start_date <= now
              /\ now <= user.suspension_end_date
           THEN [user EXCEPT !.is_suspended = TRUE]
           ELSE IF now > user.suspension_end_date
           THEN [user EXCEPT !.is_suspended = FALSE,
                             !.suspension_start_date = NoDate,
                             !.suspension_end_date = NoDate]
           ELSE user,
           now)
    ELSE user

\* Lines 102-117 of login_user: the password did not authenticate.
FailedAttempt(user, now) ==
    LET attempts == user.failed_login_attempts + 1
    IN  IF attempts >= SuspendAfter
        THEN CustomUser_save([user EXCEPT !.is_suspended = TRUE,
                                          !.failed_login_attempts = 0], now)
        ELSE CustomUser_save([user EXCEPT !.failed_login_attempts = attempts],
                             now)

\* password_ok: authenticate() finds the user and the password matches.
login_user(username, password_ok) ==
    /\ IF username \in DOMAIN users /\ password_ok
       THEN LET user == LoginWindowCheck(users[username], today)
            IN  IF ~user.is_suspended
                THEN /\ session' = session \cup {username}
                     /\ users' = [users EXCEPT ![username] =
                          CustomUser_save(
                            [user EXCEPT !.failed_login_attempts = 0], today)]
                     /\ message' = "You have successfully logged in!"
                ELSE /\ users' = [users EXCEPT ![username] = user]
                     /\ message' = "Your account has been suspended."
                     /\ UNCHANGED session
       ELSE IF username \in DOMAIN users
       THEN /\ users' = [users EXCEPT ![username] = FailedAttempt(@, today)]
            /\ message' =
                 IF users[username].failed_login_attempts + 1 >= SuspendAfter
                 THEN "You've attempted too many times."
                 ELSE "Invalid username or password."
            /\ UNCHANGED session
       ELSE /\ message' = "Invalid username or password."
            /\ UNCHANGED <<users, session>>
    /\ UNCHANGED <<journalVars, procVars, today, page>>

logout_user(username) ==
    /\ username \in session
    /\ session' = session \ {username}
    /\ message' = "You have successfully logged out."
    /\ UNCHANGED <<journalVars, procVars, users, today, page>>

\* An administrator stores a user with the given suspension fields; the
\* write goes through CustomUser.save.
admin_save(username, is_suspended, start, end) ==
    /\ users' = [users EXCEPT ![username] =
          CustomUser_save([@ EXCEPT !.is_suspended = is_suspended,
                                    !.suspension_start_date = start,
                                    !.suspension_end_date = end], today)]
    /\ message' = "none"
    /\ UNCHANGED <<journalVars, procVars, today, session, page>>

(* -------------------- register_user and activate ---------------------- *)
\* SignUpForm.is_valid(): the submitted fields pass the form's checks and
\* the username is not taken.
SignUpForm_is_valid(username, fields_ok) ==
    fields_ok /\ username \notin DOMAIN users

\* form.save(commit=False): an unsaved CustomUser with the field defaults.
SignUpForm_save ==
    [is_active |-> TRUE,
     is_suspended |-> FALSE,
     failed_login_attempts |-> 0,
     suspension_start_date |-> NoDate,
     suspension_end_date |-> NoDate]

\* The activation mail carries urlsafe_base64_encode(force_bytes(user.pk))
\* and account_activation_token.make_token(user).
urlsafe_base64_encode(pk) == <<"b64", pk>>
Undecodable == "undecodable"
\* urlsafe_base64_decode raises on a string that is no encoding.
urlsafe_base64_decode(uidb64) ==
    IF uidb64[1] = "b64" THEN uidb64[2] ELSE Undecodable
make_token(pk) == <<"token", pk>>
check_token(pk, token) == token = make_token(pk)

register_user(username, fields_ok) ==
    /\ IF SignUpForm_is_valid(username, fields_ok)
       THEN LET user == [SignUpForm_save EXCEPT !.is_active = FALSE]
            IN  /\ users' = [u \in DOMAIN users \cup {username} |->
                              IF u = username
                              THEN CustomUser_save(user, today)
                              ELSE users[u]]
                /\ session' = session \cup {username}
                /\ message' = "You have successfully registered."
       ELSE /\ message' = "register.html"
            /\ UNCHANGED <<users, session>>
    /\ UNCHANGED <<journalVars, procVars, today, page>>

\* Line 184: the user was found and the token is valid for that user.
ActivationAllowedAnyToken(uid, token) == uid \in DOMAIN users
ActivationAllowed(uid, token) ==
    uid \in DOMAIN users /\ check_token(uid, token)

activate(uidb64, token) ==
    /\ LET uid == urlsafe_base64_decode(uidb64)
       IN  IF ActivationAllowed(uid, token)
           THEN /\ users' = [users EXCEPT ![uid] =
                     CustomUser_save([@ EXCEPT !.is_active = TRUE], today)]
                /\ message' = "User account is now active."
           ELSE /\ message' = "Activation link is invalid!"
                /\ UNCHANGED users
    /\ UNCHANGED <<journalVars, procVars, today, session, page>>

\* The calendar date advances.
NextDay ==
    /\ today < MaxDay
    /\ today' = today + 1
    /\ UNCHANGED <<journalVars, procVars, message, users, session, page>>

Dates == {NoDate} \cup (0 .. MaxDay)

LoginNext ==
    \/ \E u \in Usernames, ok \in BOOLEAN : login_user(u, ok)
    \/ \E u \in Users : logout_user(u)
    \/ \E u \in Users, s \in BOOLEAN, d1, d2 \in Dates : admin_save(u, s, d1, d2)
    \/ NextDay
SpecLogin == Init /\ [][LoginNext]_vars

\* On day 0 an administrator has saved every user with is_suspended set and
\* the window [ScheduledStart, ScheduledEnd]; afterwards users log in and
\* out as the days pass, and no administrator touches the users.
ScheduledStart == MaxDay - 1
ScheduledEnd == MaxDay
InitScheduled ==
    /\ accounts = [a \in Accounts |->
                     [is_active |-> TRUE,
                      normal_side |-> InitialSide(a),
                      initial_balance |-> InitialBalance(a),
                      debit |-> 0, credit |-> 0,
                      balance |-> InitialBalance(a)]]
    /\ nGroups = 0
    /\ entries = <<>>
    /\ ledger = <<>>
    /\ coa_log = <<>>
    /\ emails = 0
    /\ message = "none"
    /\ pc = [p \in Procs |-> "idle"]
    /\ ents = [p \in Procs |-> <<>>]
    /\ idx = [p \in Procs |-> 0]
    /\ acct = [p \in Procs |-> NoAccount]
    /\ users = [u \in Users |->
                  CustomUser_save(
                    [is_active |-> TRUE,
                     is_suspended |-> TRUE,
                     failed_login_attempts |-> 0,
                     suspension_start_date |-> ScheduledStart,
                     suspension_end_date |-> ScheduledEnd], 0)]
    /\ today = 0
    /\ session = {}
    /\ page = NoPage
ScheduledNext ==
    \/ \E u \in Usernames, ok \in BOOLEAN : login_user(u, ok)
    \/ \E u \in Users : logout_user(u)
    \/ NextDay
SpecScheduled == InitScheduled /\ [][ScheduledNext]_vars

\* Sign-up, activation links and logins.
Uids == {urlsafe_base64_encode(u) : u \in Usernames \cup Applicants}
          \cup {<<"raw", "x">>}
Tokens == {make_token(u) : u \in Usernames \cup Applicants}
RegisterNext ==
    \/ \E u \in Users \cup Applicants, ok \in BOOLEAN : register_user(u, ok)
    \/ \E uid \in Uids, token \in Tokens : activate(uid, token)
    \/ \E u \in Usernames \cup Applicants, ok \in BOOLEAN : login_user(u, ok)
    \/ \E u \in Users \cup Applicants : logout_user(u)
SpecRegister == Init /\ [][RegisterNext]_vars

(* -------------------------- specifications ---------------------------- *)
JournalStep(p) ==
    \/ \E a1, a2 \in AccountNames, d, c \in AmountInputs, d1, d2 \in BOOLEAN :
          add_journal_entry(p, a1, d, a2, c, d1, d2)
    \/ \E g \in 1..MaxGroups : approve_start(p, g)
    \/ \E fail \in BOOLEAN : approve_begin(p, fail)
    \/ approve_load_account(p)
    \/ \E failAt \in {0, 2, 3} : approve_commit(p, failAt)
    \/ view_save(p)
    \/ \E g \in 1..MaxGroups : reject_start(p, g)
    \/ reject_entry(p)

EditStep(p) ==
    \E a \in AccountNames, side \in LeftRight \cup {""} :
        edit_account(p, a, side)

\* Requests processed one at a time: a single thread serves them all.
\* The journal-entry workflow alone ...
Server == CHOOSE p \in Procs : TRUE
SeqNext == JournalStep(Server)
SpecSeq == Init /\ [][SeqNext]_vars

\* ... and the workflow together with chart-of-accounts edits.
EditNext == JournalStep(Server) \/ EditStep(Server)
SpecEdit == Init /\ [][EditNext]_vars

\* ... and the workflow together with the ledger page.
LedgerNext ==
    \/ JournalStep(Server)
    \/ \E a \in AccountNames : ledger_view(Server, a)
SpecLedger == Init /\ [][LedgerNext]_vars

\* The chart-of-accounts pages alone.
CoANext ==
    \/ EditStep(Server)
    \/ \E a \in AccountNames : deactivate_account(Server, a)
    \/ \E a \in AccountNames : activate_account(Server, a)
SpecCoA == Init /\ [][CoANext]_vars

\* Two groups that post to the same accounts have been submitted and are
\* Pending; thread p serves the approve request for group p.
InitTwoGroups ==
    /\ accounts = [a \in Accounts |->
                     [is_active |-> TRUE,
                      normal_side |-> InitialSide(a),
                      initial_balance |-> InitialBalance(a),
                      debit |-> 0, credit |-> 0,
                      balance |-> InitialBalance(a)]]
    /\ nGroups = 2
    /\ \E amount1, amount2 \in 1..MaxAmount :
         entries = CreateEntries(
                     CreateEntries(<<>>, 1, "Cash", amount1, TRUE,
                                   "Sales", amount1, TRUE),
                     2, "Cash", amount2, TRUE, "Sales", amount2, TRUE)
    /\ ledger = <<>>
    /\ coa_log = <<>>
    /\ emails = 2
    /\ message = "redirect"
    /\ pc = [p \in Procs |-> "idle"]
    /\ ents = [p \in Procs |-> <<>>]
    /\ idx = [p \in Procs |-> 0]
    /\ acct = [p \in Procs |-> NoAccount]
    /\ users = [u \in Users |->
                  [is_active |-> TRUE,
                   is_suspended |-> FALSE,
                   failed_login_attempts |-> 0,
                   suspension_start_date |-> NoDate,
                   suspension_end_date |-> NoDate]]
    /\ today = 0
    /\ session = {}
    /\ page = NoPage

ApproveStep(p) ==
    \/ approve_start(p, p)
    \/ \E fail \in BOOLEAN : approve_begin(p, fail)
    \/ approve_load_account(p)
    \/ \E failAt \in {0, 2, 3} : approve_commit(p, failAt)
    \/ view_save(p)
TwoGroupsNext == \E p \in Procs : ApproveStep(p)
SpecTwoGroups == InitTwoGroups /\ [][TwoGroupsNext]_vars

\* Approve and reject requests for group 1 served by concurrent threads,
\* no statement raising.
RaceStep(p) ==
    \/ approve_start(p, 1)
    \/ approve_begin(p, FALSE)
    \/ approve_load_account(p)
    \/ approve_commit(p, 0)
    \/ view_save(p)
    \/ reject_start(p, 1)
    \/ reject_entry(p)
RaceNext == \E p \in Procs : RaceStep(p)
SpecRace == InitTwoGroups /\ [][RaceNext]_vars

\* Requests of the journal-entry workflow processed by concurrent threads.
Next == \E p \in Procs : JournalStep(p)
Spec == Init /\ [][Next]_vars

(* ------------------------------ claims -------------------------------- *)
Pending(e) == entries[e].status = "Pending"
BecomesApproved(e) == Pending(e) /\ entries'[e].status = "Approved"
Count(S) == Cardinality(S)

\* C1: with requests processed one at a time, an account's debit and
\* credit totals change only in a step that turns stored Pending entries of
\* that account into Approved ones, and then by exactly those entries'
\* amounts; such a step creates exactly one GeneralLedger row for the entry,
\* no other step creates one, and an entry that has left Pending never
\* returns to it.  So amounts are applied once if the entry is ever
\* approved and never otherwise; a repeated approve changes nothing.
C1_AppliedExactlyOnce ==
    [][/\ \A a \in Accounts :
            LET newly == {e \in DOMAIN entries :
                            entries[e].account = a /\ BecomesApproved(e)}
            IN  /\ accounts'[a].debit =
                     accounts[a].debit + SumOver(newly, entries, "debit")
                /\ accounts'[a].credit =
                     accounts[a].credit + SumOver(newly, entries, "credit")
       /\ \A e \in DOMAIN entries :
            /\ Count(LedgerRowsOf(ledger', e)) =
                 Count(LedgerRowsOf(ledger, e))
                 + (IF BecomesApproved(e) THEN 1 ELSE 0)
            /\ ~Pending(e) => entries'[e].status # "Pending"
      ]_vars

\* An approve request has reached an entry that is already Approved and
\* posted once: approve() did nothing and the view is about to save.
C1_Witness ==
    \E p \in Procs :
        /\ pc[p] = "view_save"
        /\ acct[p] = NoAccount
        /\ LET e == CurrentEntry(p)
           IN  /\ entries[e.id].status = "Approved"
               /\ Count(LedgerRowsOf(ledger, e.id)) = 1
               /\ accounts[e.account].debit = e.debit
               /\ accounts[e.account].credit = e.credit

\* C2: once a journal entry's stored status is Approved it stays Approved
\* in every later state.
C2_ApprovalIrreversible ==
    [][\A e \in DOMAIN entries :
          entries[e].status = "Approved" => entries'[e].status = "Approved"
      ]_vars

\* C3: in every state, a group all of whose entries are Approved has equal
\* total debit and total credit, its debited account is Left and its
\* credited account is Right.
C3_ApprovedGroupBalanced ==
    \A g \in 1..nGroups :
        (GroupEntries(g) # {}
         /\ \A e \in GroupEntries(g) : entries[e].status = "Approved")
        => /\ SumOver(GroupEntries(g), entries, "debit")
                = SumOver(GroupEntries(g), entries, "credit")
           /\ \A e \in GroupEntries(g) :
                /\ entries[e].debit > 0
                     => accounts[entries[e].account].normal_side = "Left"
                /\ entries[e].credit > 0
                     => accounts[entries[e].account].normal_side = "Right"

ApproveFailed(p) == pc'[p] = "idle" /\ message' = "server error"

\* C4: JournalEntry.approve on a Pending entry is all-or-nothing.  A step
\* of the atomic block either fails, and then the stored status is still
\* Pending, the accounts are unchanged and the entry has no GeneralLedger
\* row, or it completes the block, and then the status is Approved, the
\* account's totals have grown by the entry's amounts and the entry has
\* one new GeneralLedger row.
C4_ApproveAllOrNothing ==
    [][\A p \in Procs :
         /\ (pc[p] = "approve_entry" /\ ApproveFailed(p))
              => /\ entries'[CurrentEntry(p).id].status = "Pending"
                 /\ accounts' = accounts
                 /\ LedgerRowsOf(ledger', CurrentEntry(p).id) = {}
         /\ (pc[p] = "approve_commit" /\ pc'[p] # "approve_commit")
              => LET e == CurrentEntry(p)
                     a == e.account
                 IN  IF ApproveFailed(p)
                     THEN /\ entries'[e.id].status = "Pending"
                          /\ accounts' = accounts
                          /\ LedgerRowsOf(ledger', e.id) = {}
                     ELSE /\ entries'[e.id].status = "Approved"
                          /\ accounts'[a].debit = accounts[a].debit + e.debit
                          /\ accounts'[a].credit =
                               accounts[a].credit + e.credit
                          /\ accounts'[a].balance =
                               accounts[a].initial_balance
                               + accounts'[a].debit - accounts'[a].credit
                          /\ Count(LedgerRowsOf(ledger', e.id)) = 1
      ]_vars

\* An approval has failed after a complete submission: the request ended
\* in a server error and nothing of the posting is stored.
C4_Witness ==
    /\ message = "server error"
    /\ nGroups >= 1
    /\ Len(entries) = 2 * nGroups
    /\ \A p \in Procs : pc[p] = "idle"
    /\ \E e \in EntryIds : /\ entries[e].status = "Pending"
                           /\ LedgerRowsOf(ledger, e) = {}
                           /\ accounts[entries[e].account].debit = 0
                           /\ accounts[entries[e].account].credit = 0

\* C5: also under concurrent approve requests, every entry has at most
\* one GeneralLedger row and each account's totals are the sums of the
\* amounts of its posted entries, each counted once.
C5_ConcurrentApproveOnce ==
    /\ \A e \in EntryIds : Count(LedgerRowsOf(ledger, e)) <= 1
    /\ \A a \in Accounts :
         LET posted == {e \in EntryIds : /\ entries[e].account = a
                                         /\ LedgerRowsOf(ledger, e) # {}}
         IN  /\ accounts[a].debit = SumOver(posted, entries, "debit")
             /\ accounts[a].credit = SumOver(posted, entries, "credit")

\* C6: in every state, every GeneralLedger row references an Approved
\* journal entry and carries its account, debit and credit, and every
\* Approved journal entry has exactly one GeneralLedger row.
C6_LedgerIsPostedEntries ==
    /\ \A i \in DOMAIN ledger :
         LET e == ledger[i].journal_entry
         IN  /\ entries[e].status = "Approved"
             /\ ledger[i].account = entries[e].account
             /\ ledger[i].debit = entries[e].debit
             /\ ledger[i].credit = entries[e].credit
    /\ \A e \in EntryIds :
         entries[e].status = "Approved"
           => Count(LedgerRowsOf(ledger, e)) = 1

\* C7: the GeneralLedger is append-only.  No step changes or removes an
\* existing row, and a row is added only by the step that completes the
\* approval of a journal entry, for that entry.
C7_LedgerAppendOnly ==
    [][/\ Len(ledger') >= Len(ledger)
       /\ \A i \in DOMAIN ledger : ledger'[i] = ledger[i]
       /\ Len(ledger') > Len(ledger)
            => /\ Len(ledger') = Len(ledger) + 1
               /\ \E p \in Procs :
                    /\ pc[p] = "approve_commit"
                    /\ ledger'[Len(ledger')].journal_entry = CurrentEntry(p).id
                    /\ entries'[CurrentEntry(p).id].status = "Approved"
      ]_vars

\* A posted entry has been rejected afterwards and its row is still there.
C7_Witness ==
    \E e \in EntryIds : /\ entries[e].status = "Rejected"
                        /\ LedgerRowsOf(ledger, e) # {}

\* The conditions under which a submission is to be rejected.
InvalidSubmission(account1_name, debit_str, account2_name, credit_str) ==
    \/ debit_str = Missing
    \/ credit_str = Missing
    \/ debit_str <= 0
    \/ credit_str <= 0
    \/ debit_str # credit_str
    \/ account1_name \notin Accounts
    \/ account2_name \notin Accounts
    \/ accounts[account1_name].normal_side # "Left"
    \/ accounts[account2_name].normal_side # "Right"

\* C8: add_journal_entry rejects an invalid submission without changing
\* state: a step that creates a group or an entry or sends the email is
\* never a submission whose values are missing, not positive or different,
\* whose accounts do not exist, or whose sides are not Left and Right.
C8_InvalidSubmissionRejected ==
    [][(nGroups' # nGroups \/ Len(entries') # Len(entries)
        \/ emails' # emails)
       => \A p \in Procs, a1, a2 \in AccountNames, d, c \in AmountInputs,
             d1, d2 \in BOOLEAN :
             add_journal_entry(p, a1, d, a2, c, d1, d2)
               => ~InvalidSubmission(a1, d, a2, c)
      ]_vars

\* A submission with different debit and credit has just been refused and
\* nothing is stored.
C8_Witness ==
    /\ message = "The total debit and credit values must match."
    /\ nGroups = 0
    /\ entries = <<>>
    /\ emails = 0

\* C9: in every state every JournalEntryGroup has exactly two entries,
\* one with debit = amount and credit = 0 and one with credit = the same
\* amount and debit = 0.
C9_GroupHasTwoEntries ==
    \A g \in 1..nGroups :
        \E e1, e2 \in GroupEntries(g) :
            /\ e1 # e2
            /\ GroupEntries(g) = {e1, e2}
            /\ entries[e1].debit > 0
            /\ entries[e1].credit = 0
            /\ entries[e2].credit = entries[e1].debit
            /\ entries[e2].debit = 0

\* C10: the fifth consecutive failed login attempt on an unsuspended
\* account leaves the stored account suspended.
C10_FifthFailureSuspends ==
    [][\A u \in Users :
         (/\ users[u].failed_login_attempts = SuspendAfter - 1
          /\ ~users[u].is_suspended
          /\ login_user(u, FALSE))
         => users'[u].is_suspended
      ]_vars

InWindow(user, now) ==
    /\ user.suspension_start_date # NoDate
    /\ user.suspension_end_date # NoDate
    /\ user.suspension_start_date <= now
    /\ now <= user.suspension_end_date

\* C11: a login with correct credentials for a user whose stored
\* suspension window contains today establishes no session and leaves
\* failed_login_attempts unchanged.
C11_SuspendedLoginRefused ==
    [][\A u \in Users :
         (InWindow(users[u], today) /\ login_user(u, TRUE))
         => /\ session' = session
            /\ users'[u].failed_login_attempts
                 = users[u].failed_login_attempts
            /\ message' = "Your account has been suspended."
      ]_vars

\* A user with failed attempts on record, inside the window, has just been
\* refused with the right password.
C11_Witness ==
    \E u \in Users :
        /\ InWindow(users[u], today)
        /\ message = "Your account has been suspended."
        /\ users[u].failed_login_attempts > 0
        /\ u \notin session

\* C12: when today is after the stored suspension_end_date, a login with
\* correct credentials stores is_suspended = false with both dates
\* cleared, logs the user in and resets failed_login_attempts to 0.
C12_ExpiredSuspensionLifted ==
    [][\A u \in Users :
         (/\ users[u].suspension_end_date # NoDate
          /\ today > users[u].suspension_end_date
          /\ login_user(u, TRUE))
         => /\ ~users'[u].is_suspended
            /\ users'[u].suspension_start_date = NoDate
            /\ users'[u].suspension_end_date = NoDate
            /\ users'[u].failed_login_attempts = 0
            /\ u \in session'
      ]_vars

\* A user stored as suspended, with failed attempts on record, whose
\* window has ended and who holds no session: the next correct login is
\* the one the claim is about.
C12_Witness ==
    \E u \in Users :
        /\ users[u].is_suspended
        /\ users[u].suspension_end_date # NoDate
        /\ today > users[u].suspension_end_date
        /\ users[u].failed_login_attempts > 0
        /\ u \notin session

\* C13: deactivate_account leaves an account whose balance is greater
\* than 0 as it is and creates no CoAEventLog record; an account whose
\* balance is not greater than 0 is stored with is_active = false and
\* exactly one record, with action "deactivated", is created for it.
C13_DeactivateOnlyWithoutBalance ==
    [][\A p \in Procs, a \in Accounts :
         deactivate_account(p, a)
         => IF accounts[a].balance > 0
            THEN /\ accounts'[a].is_active = accounts[a].is_active
                 /\ coa_log' = coa_log
            ELSE /\ ~accounts'[a].is_active
                 /\ Len(coa_log') = Len(coa_log) + 1
                 /\ SubSeq(coa_log', 1, Len(coa_log)) = coa_log
                 /\ coa_log'[Len(coa_log')].action = "deactivated"
                 /\ coa_log'[Len(coa_log')].chart_of_account = a
      ]_vars

\* An account without balance has been deactivated and logged, while the
\* account with a balance is still active.
C13_Witness ==
    /\ \E a \in Accounts :
         /\ accounts[a].balance <= 0
         /\ ~accounts[a].is_active
         /\ coa_log # <<>>
         /\ coa_log[Len(coa_log)].action = "deactivated"
         /\ coa_log[Len(coa_log)].chart_of_account = a
    /\ \E a \in Accounts : accounts[a].balance > 0 /\ accounts[a].is_active

\* C14: a newly registered user is stored with is_active = false; a
\* stored user becomes active only in an activate step whose uid decodes
\* to that user and whose token is valid for that user; activate with an
\* undecodable or unknown uid, or with an invalid token, changes no user.
C14_ActivationOnlyByValidLink ==
    [][/\ \A u \in DOMAIN users' \ DOMAIN users : ~users'[u].is_active
       /\ \A u \in DOMAIN users :
            (~users[u].is_active /\ users'[u].is_active)
            => \E uid \in Uids, token \in Tokens :
                 /\ activate(uid, token)
                 /\ urlsafe_base64_decode(uid) = u
                 /\ check_token(u, token)
       /\ \A uid \in Uids, token \in Tokens :
            (/\ activate(uid, token)
             /\ \/ urlsafe_base64_decode(uid) \notin DOMAIN users
                \/ ~check_token(urlsafe_base64_decode(uid), token))
            => users' = users
      ]_vars

\* A user who signed up has been activated, and the last activation link
\* that was followed was refused.
C14_Witness ==
    /\ \E u \in Applicants : u \in DOMAIN users /\ users[u].is_active
    /\ message = "Activation link is invalid!"

\* C15: a request that names a record which does not exist ends in the
\* not-found outcome and changes no stored state; stated here for the
\* group id of an approve or reject request.
C15_MissingGroupNotFound ==
    [][\A p \in Procs, g \in 1..MaxGroups :
         (g \notin 1..nGroups /\ (approve_start(p, g) \/ reject_start(p, g)))
         => /\ message' = "not found"
            /\ UNCHANGED journalVars
      ]_vars

\* C16: the step that approves a Pending entry e of account a stores
\* a.debit + e.debit, a.credit + e.credit and, as balance, initial_balance
\* plus the new debit minus the new credit, and the GeneralLedger row it
\* creates for e carries that balance; hence, with approvals processed one
\* at a time and no account edits, every account always has
\* balance = initial_balance + debit - credit.
C16_ApprovalArithmetic ==
    /\ [][\A e \in DOMAIN entries :
            BecomesApproved(e)
            => LET a == entries[e].account
                   row == ledger'[Len(ledger')]
               IN  /\ accounts'[a].debit = accounts[a].debit + entries[e].debit
                   /\ accounts'[a].credit =
                        accounts[a].credit + entries[e].credit
                   /\ accounts'[a].balance =
                        accounts[a].initial_balance
                        + accounts'[a].debit - accounts'[a].credit
                   /\ Len(ledger') = Len(ledger) + 1
                   /\ row.journal_entry = e
                   /\ row.account = a
                   /\ row.balance = accounts'[a].balance
         ]_vars
    /\ [](\A a \in Accounts :
            accounts[a].balance =
              accounts[a].initial_balance + accounts[a].debit
              - accounts[a].credit)

\* Both entries of a group are posted: the debited account's balance has
\* moved away from its initial balance and equals the balance on its row.
C16_Witness ==
    /\ Len(ledger) = 2
    /\ \E i \in DOMAIN ledger :
         LET a == ledger[i].account
         IN  /\ ledger[i].debit > 0
             /\ ledger[i].balance = accounts[a].balance
             /\ accounts[a].balance # accounts[a].initial_balance
    /\ \A p \in Procs : pc[p] = "idle"

\* C17: approving a group is all-or-nothing over its entries: once the
\* request is over, the entries of a group are either all posted (each has
\* a GeneralLedger row) or none is.
C17_GroupPostedTogether ==
    (\A p \in Procs : pc[p] = "idle")
    => \A g \in 1..nGroups : \A e1, e2 \in GroupEntries(g) :
         (LedgerRowsOf(ledger, e1) = {}) <=> (LedgerRowsOf(ledger, e2) = {})

\* C18: concurrent approvals of entries of different groups that post to
\* the same account lose no update: once both requests are over and every
\* entry is Approved and posted once, each account's totals are the sums
\* of its entries' amounts and balance = initial_balance + debit - credit.
C18_NoLostUpdate ==
    (/\ \A p \in Procs : pc[p] = "idle"
     /\ \A e \in EntryIds : /\ entries[e].status = "Approved"
                            /\ Count(LedgerRowsOf(ledger, e)) = 1)
    => \A a \in Accounts :
         LET mine == {e \in EntryIds : entries[e].account = a}
         IN  /\ accounts[a].debit = SumOver(mine, entries, "debit")
             /\ accounts[a].credit = SumOver(mine, entries, "credit")
             /\ accounts[a].balance =
                  accounts[a].initial_balance + accounts[a].debit
                  - accounts[a].credit

\* C19 as stated: every stored user with is_suspended = false has both
\* suspension dates null.
C19_UnsuspendedHasNoDates ==
    \A u \in Users :
        ~users[u].is_suspended
        => /\ users[u].suspension_start_date = NoDate
           /\ users[u].suspension_end_date = NoDate

\* C19 as amended: a save of a user whose is_suspended is false stores the
\* user unsuspended with both dates null; a save of a user whose
\* is_suspended is true stores the dates as given and is_suspended true
\* exactly when both dates are set and the window contains today.
C19_SaveSuspensionDates ==
    [][\A u \in Users, s \in BOOLEAN, d1, d2 \in Dates :
         admin_save(u, s, d1, d2)
         => IF ~s
            THEN /\ ~users'[u].is_suspended
                 /\ users'[u].suspension_start_date = NoDate
                 /\ users'[u].suspension_end_date = NoDate
            ELSE /\ users'[u].suspension_start_date = d1
                 /\ users'[u].suspension_end_date = d2
                 /\ users'[u].is_suspended
                      <=> (d1 # NoDate /\ d2 # NoDate
                           /\ d1 <= today /\ today <= d2)
      ]_vars

\* A save has lifted a suspension whose window lies in the future: the
\* user is stored unsuspended with both dates set.
C19_Witness ==
    \E u \in Users :
        /\ message = "none"
        /\ ~users[u].is_suspended
        /\ users[u].suspension_start_date # NoDate
        /\ users[u].suspension_end_date # NoDate
        /\ today < users[u].suspension_start_date

\* C20: in every state, the stored status of every journal entry is one
\* of the declared choices Pending, Approved, Denied.
C20_StatusIsDeclaredChoice ==
    \A e \in EntryIds : entries[e].status \in STATUS_CHOICES

\* C21: in every state, the action of every CoAEventLog record is one of
\* the declared choices added, modified, deactivated.
C21_ActionIsDeclaredChoice ==
    \A i \in DOMAIN coa_log : coa_log[i].action \in ACTION_CHOICES

\* C22: every CoAEventLog record created by edit_account,
\* deactivate_account or activate_account holds true snapshots:
\* before_change is the serialization of the account as stored immediately
\* before the step and after_change the serialization as stored
\* immediately after it.
C22_SnapshotsAreTrue ==
    [][Len(coa_log') = Len(coa_log) + 1
       => LET record == coa_log'[Len(coa_log')]
              a == record.chart_of_account
          IN  IF record.action = "modified"
              THEN /\ record.before_change =
                        serialize_account(a, accounts[a])
                   /\ record.after_change =
                        serialize_account(a, accounts'[a])
              ELSE /\ record.before_change = serialize(a, accounts[a])
                   /\ record.after_change = serialize(a, accounts'[a])
      ]_vars

ApprovedBefore(rows, i) ==
    {j \in 1..i : rows[j].status = "Approved"}

\* C23: the ledger page of an account lists only Approved journal entries
\* of that account, and the running balance shown on each row is the
\* initial balance plus the debits minus the credits of the Approved
\* entries up to that row.
C23_LedgerShowsApprovedOnly ==
    page # NoPage
    => LET rows == page.journal_entries
       IN  \A i \in DOMAIN rows :
             /\ rows[i].status = "Approved"
             /\ rows[i].balance =
                  accounts[page.account].initial_balance
                  + SumOver(ApprovedBefore(rows, i), rows, "debit")
                  - SumOver(ApprovedBefore(rows, i), rows, "credit")

\* C24: once every approve and reject request on a group is over, the
\* entries of the group carry the same status.
C24_GroupStatusAgrees ==
    (\A p \in Procs : pc[p] = "idle")
    => \A g \in 1..nGroups : \A e1, e2 \in GroupEntries(g) :
         entries[e1].status = entries[e2].status

\* C25: once a user has been saved with is_suspended set and a suspension
\* window, every login with correct credentials on a day within the window
\* is refused, whatever logins happened before the window began.
C25_ScheduledSuspensionHolds ==
    [][\A u \in Users :
         (/\ ScheduledStart <= today
          /\ today <= ScheduledEnd
          /\ login_user(u, TRUE))
         => /\ u \notin session'
            /\ message' = "Your account has been suspended."
      ]_vars

====
